---------------------------- MODULE Spec2Model ----------------------------
(***************************************************************************)
(* A model of tar-reorder.py: the recursive reorder() of the members of a  *)
(* tar archive, and the per-archive main loop around it (temporary file,   *)
(* cleanup, promotion over the original, batch accounting, exit status).   *)
(*                                                                         *)
(* Strings are sequences of one-character strings, so that splitext,       *)
(* split and the ordering of keys are computed and not assumed.            *)
(***************************************************************************)
EXTENDS Integers, Sequences, FiniteSets, TLC

VARIABLES
    args,       \* the archive names given on the command line
    opts,       \* [usemagic, out]: the options reorder() and the loop read
    disk,       \* archive name -> [valid, members]: the archives on disk
    fi,         \* index in args of the archive being processed ("for fn in args")
    pc,         \* position in the body of the main loop
    exc,        \* the exception in flight, [cls, at], or NoExc
    processed,  \* the counter of line 145
    outcome,    \* per finished archive: "ok", "failed" or "crashed"
    status,     \* the exit status once the program ended, -1 before
    intar,      \* the members of the open input archive (TarInfo objects)
    incls,      \* the class of the input's file object: "file" or "compressed"
    tmpfiles,   \* indices in args whose output/temporary file is on disk
    handles,    \* the handles that are open among intar, outtar, tmpf
    outtar,     \* the members added to the output archive, in order
    stack       \* the activation records of reorder(), innermost last

vars == <<args, opts, disk, fi, pc, exc, processed, outcome, status,
          intar, incls, tmpfiles, handles, outtar, stack>>

---------------------------------------------------------------------------
(* Bounds of the model. *)

\* the longest member list of an archive under Spec
MaxLen == 3
\* the most archive names on a command line under BatchSpec
MaxArgs == 2

---------------------------------------------------------------------------
(* Strings. *)

\* the code point of a character (Python compares str byte-wise)
Ord(c) ==
    CASE c = "." -> 46
      [] c = "/" -> 47
      [] c = "a" -> 97
      [] c = "b" -> 98
      [] c = "c" -> 99
      [] c = "d" -> 100
      [] c = "l" -> 108
      [] c = "m" -> 109
      [] c = "n" -> 110
      [] c = "t" -> 116
      [] c = "x" -> 120
      [] c = "z" -> 122

Min2(a, b) == IF a < b THEN a ELSE b

\* s < t for two str values
StrLess(s, t) ==
    \/ /\ Len(s) < Len(t)
       /\ \A k \in 1..Len(s) : s[k] = t[k]
    \/ \E k \in 1..Min2(Len(s), Len(t)) :
          /\ \A j \in 1..(k-1) : s[j] = t[j]
          /\ Ord(s[k]) < Ord(t[k])

StrLeq(s, t) == s = t \/ StrLess(s, t)

\* s.rfind(c), 1-based, 0 when c does not occur
RFind(s, c) ==
    LET hits == {k \in 1..Len(s) : s[k] = c}
    IN  IF hits = {} THEN 0 ELSE CHOOSE k \in hits : \A j \in hits : j <= k

\* os.path.splitext(p): <<root, ext>>; the extension starts at the last dot of
\* the last path component, unless that component has only leading dots before it
splitext(p) ==
    LET sepIndex == RFind(p, "/")
        dotIndex == RFind(p, ".")
    IN  IF /\ dotIndex > sepIndex
           /\ \E k \in (sepIndex+1)..(dotIndex-1) : p[k] # "."
        THEN <<SubSeq(p, 1, dotIndex-1), SubSeq(p, dotIndex, Len(p))>>
        ELSE <<p, <<>> >>

\* the loop of lines 109-121: the extensions in the order they are stripped, joined
RECURSIVE ExtKey(_)
ExtKey(name) ==
    LET r == splitext(name)
    IN  IF r[2] # <<>> THEN r[2] \o ExtKey(r[1]) ELSE <<>>

\* os.path.split(name)[1]: what follows the last slash
BaseName(name) == SubSeq(name, RFind(name, "/") + 1, Len(name))

\* a slip in line 141: the keys taken from the greatest to the least
RECURSIVE SortedKeysReversed(_)
SortedKeysReversed(S) ==
    IF S = {} THEN <<>>
    ELSE LET m == CHOOSE x \in S : \A y \in S : StrLeq(y, x)
         IN  <<m>> \o SortedKeysReversed(S \ {m})

\* sorted(keys) for a set of str
RECURSIVE SortedKeys(_)
SortedKeys(S) ==
    IF S = {} THEN <<>>
    ELSE LET m == CHOOSE x \in S : \A y \in S : StrLeq(x, y)
         IN  <<m>> \o SortedKeys(S \ {m})

---------------------------------------------------------------------------
(* Archive members. *)

\* TarInfo.isdir() / isfile() / neither (symlinks and such)
Kinds == {"dir", "reg", "other"}

\* the paths of the regular files: a.t, d.x/a.t, c, b.t.z
RegPaths ==
    { <<"a", ".", "t">>,
      <<"d", ".", "x", "/", "a", ".", "t">>,
      <<"c">>,
      <<"b", ".", "t", ".", "z">> }

\* the member descriptors archives are made of under Spec; sniff is what
\* wizard.buffer() does with the first bytes of the member: a MIME string
\* ("m"), None ("none"), or an error raised on the way ("raise")
Descs ==
    {[path |-> p, kind |-> "dir", sniff |-> "none"] : p \in {<<"d", ".", "x">>, <<"b">>}}
    \cup {[path |-> <<"l">>, kind |-> "other", sniff |-> "none"]}
    \cup {[path |-> p, kind |-> "reg", sniff |-> "none"] : p \in RegPaths}
    \cup {[path |-> p, kind |-> "reg", sniff |-> "m"] : p \in {<<"a", ".", "t">>, <<"c">>}}
    \cup {[path |-> <<"c">>, kind |-> "reg", sniff |-> "raise"]}

\* the member lists of at most n members
Lists(n) == UNION {[1..k -> Descs] : k \in 0..n}

\* the archives a batch is made of under BatchSpec
BatchContents ==
    { <<>>,
      << [path |-> <<"d", ".", "x">>, kind |-> "dir", sniff |-> "none"],
         [path |-> <<"b">>, kind |-> "dir", sniff |-> "none"] >>,
      << [path |-> <<"a", ".", "t">>, kind |-> "reg", sniff |-> "m"],
         [path |-> <<"l">>, kind |-> "other", sniff |-> "none"],
         [path |-> <<"c">>, kind |-> "reg", sniff |-> "none"] >> }

\* tarfile.getmembers(): one TarInfo object per member, in archive order
GetMembers(ms) ==
    [k \in 1..Len(ms) |->
        [id |-> k, path |-> ms[k].path, kind |-> ms[k].kind, sniff |-> ms[k].sniff]]

\* what addfile() writes for a sequence of TarInfo objects
Written(fl) ==
    [k \in 1..Len(fl) |->
        [path |-> fl[k].path, kind |-> fl[k].kind, sniff |-> fl[k].sniff]]

NoExc == [cls |-> "none", at |-> "none"]

---------------------------------------------------------------------------
(* reorder(): the classification of one member. *)

\* class reorder_by
reorder_by == [type |-> 1, ext |-> 2, name |-> 3, last |-> 4]

NoKey == [bucket |-> "none", haskey |-> FALSE, key |-> <<>>]

\* a slip in lines 96-99: the two structural buckets exchanged
KindBucketSwapped(f) == IF f.kind = "dir" THEN "after" ELSE "before"

\* lines 96-99: directories go before, symlinks and such after
KindBucket(f) == IF f.kind = "dir" THEN "before" ELSE "after"

\* a slip in lines 123-127: the terminal criterion keeps the key of the
\* criterion before it
ClassifyLastKeyed(f, crit, usemagic) ==
    IF crit = reorder_by.type THEN
        IF f.kind # "reg" THEN [NoKey EXCEPT !.bucket = KindBucket(f)]
        ELSE IF usemagic /\ f.sniff # "none"
             THEN [NoKey EXCEPT !.haskey = TRUE, !.key = <<f.sniff>>]
             ELSE [NoKey EXCEPT !.haskey = TRUE]
    ELSE IF crit = reorder_by.ext THEN
        [NoKey EXCEPT !.haskey = TRUE, !.key = ExtKey(f.path)]
    ELSE IF crit = reorder_by.name THEN
        [NoKey EXCEPT !.haskey = TRUE, !.key = BaseName(f.path)]
    ELSE IF crit = reorder_by.last THEN
        [NoKey EXCEPT !.bucket = "before", !.haskey = TRUE, !.key = BaseName(f.path)]
    ELSE NoKey

\* lines 92-127 for one member f under criterion crit: the bucket it is
\* appended to and the key it is grouped under (haskey: "key is not None")
Classify(f, crit, usemagic) ==
    IF crit = reorder_by.type THEN
        IF f.kind # "reg" THEN [NoKey EXCEPT !.bucket = KindBucket(f)]
        ELSE IF usemagic /\ f.sniff # "none"
             THEN [NoKey EXCEPT !.haskey = TRUE, !.key = <<f.sniff>>]
             ELSE [NoKey EXCEPT !.haskey = TRUE]
    ELSE IF crit = reorder_by.ext THEN
        [NoKey EXCEPT !.haskey = TRUE, !.key = ExtKey(f.path)]
    ELSE IF crit = reorder_by.name THEN
        [NoKey EXCEPT !.haskey = TRUE, !.key = BaseName(f.path)]
    ELSE IF crit = reorder_by.last THEN
        [NoKey EXCEPT !.bucket = "before"]
    ELSE NoKey

\* lines 101-103 raise for a member of inlist: the content cannot be read or
\* the oracle fails
SniffRaises(inlist, crit, usemagic) ==
    /\ crit = reorder_by.type
    /\ usemagic
    /\ \E k \in 1..Len(inlist) : inlist[k].kind = "reg" /\ inlist[k].sniff = "raise"

\* the members appended to before / after, in input order
Bucket(inlist, crit, usemagic, b) ==
    SelectSeq(inlist, LAMBDA f : Classify(f, crit, usemagic).bucket = b)

\* out.keys() after the loop
GroupKeys(inlist, crit, usemagic) ==
    {Classify(inlist[k], crit, usemagic).key :
        k \in {j \in 1..Len(inlist) : Classify(inlist[j], crit, usemagic).haskey}}

\* a slip in line 129: "if key:" for "if key is not None:" leaves the members
\* with the empty key in no group
GroupIfKey(inlist, crit, usemagic, key) ==
    SelectSeq(inlist, LAMBDA f :
        /\ Classify(f, crit, usemagic).haskey
        /\ Classify(f, crit, usemagic).key = key
        /\ key # <<>>)

\* out[key] after the loop
Group(inlist, crit, usemagic, key) ==
    SelectSeq(inlist, LAMBDA f :
        Classify(f, crit, usemagic).haskey /\ Classify(f, crit, usemagic).key = key)

\* the orders list.sort() can leave a list of TarInfo objects in: TarInfo
\* defines no comparison, so Python 2 orders the objects by their addresses,
\* which are any distinct numbers
SortOutcomes(l) ==
    {[k \in 1..Len(l) |-> l[p[k]]] :
        p \in {q \in [1..Len(l) -> 1..Len(l)] :
                  \A a, b \in 1..Len(l) : a # b => q[a] # q[b]}}

\* crit + 1 of line 142
NextCrit(crit) == crit + 1

\* whether copy(flist) can succeed (TRUE) or raise an I/O error (FALSE)
CopyOutcomes(flist) == IF flist = <<>> THEN {TRUE} ELSE {TRUE, FALSE}

Frame(inlist, crit) ==
    [inlist |-> inlist, crit |-> crit, pc |-> "start",
     after |-> <<>>, keys |-> <<>>]

Top == stack[Len(stack)]

Pop == SubSeq(stack, 1, Len(stack) - 1)

\* reorder() returns to its caller: the caller's frame, or line 194
Return ==
    /\ stack' = Pop
    /\ pc' = IF Len(stack) = 1 THEN "close" ELSE pc
    /\ exc' = exc

\* an exception leaves reorder(): every frame is unwound to line 195 (what
\* a failing copy() wrote of its list before it failed is not recorded: the
\* output is never read again)
Raise(e) ==
    /\ stack' = <<>>
    /\ pc' = "abort"
    /\ exc' = e
    /\ outtar' = outtar

---------------------------------------------------------------------------
(* reorder(): the steps. *)

\* lines 85-87: at most one member is copied as it is
ReorderBase ==
    /\ pc = "reorder" /\ stack # <<>>
    /\ Top.pc = "start" /\ Len(Top.inlist) <= 1
    /\ \E ok \in CopyOutcomes(Top.inlist) :
          IF ok
          THEN outtar' = outtar \o Top.inlist /\ Return
          ELSE Raise([cls |-> "IOError", at |-> "copy"])
    /\ UNCHANGED <<args, opts, disk, fi, processed, outcome, status,
                   intar, incls, tmpfiles, handles>>

\* lines 89-140: the members are classified, before and after are sorted and
\* before is copied
ReorderGroup ==
    /\ pc = "reorder" /\ stack # <<>>
    /\ Top.pc = "start" /\ Len(Top.inlist) > 1
    /\ IF SniffRaises(Top.inlist, Top.crit, opts.usemagic)
       THEN \E cls \in {"IOError", "Other"} : Raise([cls |-> cls, at |-> "sniff"])
       ELSE \E sb \in SortOutcomes(Bucket(Top.inlist, Top.crit, opts.usemagic, "before")),
               sa \in SortOutcomes(Bucket(Top.inlist, Top.crit, opts.usemagic, "after")),
               ok \in CopyOutcomes(Bucket(Top.inlist, Top.crit, opts.usemagic, "before")) :
                IF ok
                THEN /\ outtar' = outtar \o sb
                     /\ stack' = [stack EXCEPT ![Len(stack)] =
                            [@ EXCEPT !.pc = "groups", !.after = sa,
                                      !.keys = SortedKeys(GroupKeys(Top.inlist, Top.crit,
                                                                    opts.usemagic))]]
                     /\ UNCHANGED <<pc, exc>>
                ELSE Raise([cls |-> "IOError", at |-> "copy"])
    /\ UNCHANGED <<args, opts, disk, fi, processed, outcome, status,
                   intar, incls, tmpfiles, handles>>

\* lines 141-142: the next group, in the order of the sorted keys, is reordered
\* by the next criterion
ReorderRecurse ==
    /\ pc = "reorder" /\ stack # <<>>
    /\ Top.pc = "groups" /\ Top.keys # <<>>
    /\ stack' = Append([stack EXCEPT ![Len(stack)] = [@ EXCEPT !.keys = Tail(@)]],
                       Frame(Group(Top.inlist, Top.crit, opts.usemagic, Head(Top.keys)),
                             NextCrit(Top.crit)))
    /\ UNCHANGED <<args, opts, disk, fi, pc, exc, processed, outcome, status,
                   intar, incls, tmpfiles, handles, outtar>>

\* line 143: after is copied and reorder() returns
ReorderReturn ==
    /\ pc = "reorder" /\ stack # <<>>
    /\ Top.pc = "groups" /\ Top.keys = <<>>
    /\ \E ok \in CopyOutcomes(Top.after) :
          IF ok
          THEN outtar' = outtar \o Top.after /\ Return
          ELSE Raise([cls |-> "IOError", at |-> "copy"])
    /\ UNCHANGED <<args, opts, disk, fi, processed, outcome, status,
                   intar, incls, tmpfiles, handles>>

---------------------------------------------------------------------------
(* The main loop: one archive of the command line. *)

fn == args[fi]

\* the exception leaves the try block of line 149 for its except clauses
Throw(e) == exc' = e /\ pc' = "handle"

\* what lines 161-166 can do with a valid archive: open it (and find the class
\* of its file object), or raise
OpenOutcomes == {"ok", "IOError", "Other"}

\* lines 161-166: tarfile.open(fn); a file that is no tar archive raises ReadError
OpenInput ==
    /\ pc = "open"
    /\ IF ~disk[fn].valid
       THEN /\ Throw([cls |-> "ReadError", at |-> "open"])
            /\ UNCHANGED <<intar, incls, handles>>
       ELSE \E r \in OpenOutcomes :
              IF r = "ok"
              THEN /\ intar' = GetMembers(disk[fn].members)
                   /\ incls' = disk[fn].cls
                   /\ handles' = {"intar"}
                   /\ pc' = "mktemp"
                   /\ exc' = exc
              ELSE /\ Throw([cls |-> r, at |-> "open"])
                   /\ UNCHANGED <<intar, incls, handles>>
    /\ UNCHANGED <<args, opts, disk, fi, processed, outcome, status,
                   tmpfiles, outtar, stack>>

\* what lines 168-182 can do: [cls, at, created]: the exception raised, if any,
\* and whether the output file exists afterwards
CreateOutcomes ==
    IF ~opts.out
    THEN {[cls |-> "none", at |-> "none", created |-> TRUE]}
         \cup {[cls |-> c, at |-> "mktemp", created |-> FALSE] : c \in {"IOError", "Other"}}
         \cup (IF incls # "file"
               THEN {[cls |-> "IOError", at |-> "reopen", created |-> TRUE]}
               ELSE {})
    ELSE {[cls |-> "none", at |-> "none", created |-> TRUE],
          [cls |-> "IOError", at |-> "outfile", created |-> FALSE]}

\* lines 168-182: the temporary file beside the archive (reopened by name when
\* the input is compressed), or the file named by --output
CreateOutput ==
    /\ pc = "mktemp"
    /\ \E r \in CreateOutcomes :
          /\ tmpfiles' = IF r.created THEN tmpfiles \cup {fi} ELSE tmpfiles
          /\ IF r.cls = "none"
             THEN /\ handles' = handles \cup {"tmpf"}
                  /\ pc' = "opentar"
                  /\ exc' = exc
             ELSE /\ Throw([cls |-> r.cls, at |-> r.at])
                  /\ handles' = handles
    /\ UNCHANGED <<args, opts, disk, fi, processed, outcome, status,
                   intar, incls, outtar, stack>>

\* lines 184-191: the output archive is opened on the output file
OpenOutput ==
    /\ pc = "opentar"
    /\ \E r \in {"ok", "IOError", "Other"} :
          IF r = "ok"
          THEN /\ handles' = handles \cup {"outtar"}
               /\ outtar' = <<>>
               /\ pc' = "call"
               /\ exc' = exc
          ELSE /\ exc' = [cls |-> r, at |-> "outtar"]
               /\ pc' = "cleanup"
               /\ UNCHANGED <<handles, outtar>>
    /\ UNCHANGED <<args, opts, disk, fi, processed, outcome, status,
                   intar, incls, tmpfiles, stack>>

\* line 194: reorder(intar.getmembers(), reorder_by.type, ...)
StartReorder ==
    /\ pc = "call"
    /\ stack' = <<Frame(intar, reorder_by.type)>>
    /\ pc' = "reorder"
    /\ UNCHANGED <<args, opts, disk, fi, exc, processed, outcome, status,
                   intar, incls, tmpfiles, handles, outtar>>

\* lines 195-197: reorder() raised; the output archive is closed, which can
\* raise in its turn, and the exception goes on
AbortReorder ==
    /\ pc = "abort"
    /\ \E ok \in BOOLEAN :
          /\ exc' = IF ok THEN exc ELSE [cls |-> "IOError", at |-> "abort"]
          /\ handles' = IF ok THEN handles \ {"outtar"} ELSE handles
    /\ pc' = "cleanup"
    /\ UNCHANGED <<args, opts, disk, fi, processed, outcome, status,
                   intar, incls, tmpfiles, outtar, stack>>

\* lines 198-202: tmpf.close(), os.unlink(tmpfn), intar.close(), raise; the
\* first two can raise themselves, and what follows them is then skipped
Cleanup ==
    /\ pc = "cleanup"
    /\ \E r \in {"ok", "close", "unlink"} :
          /\ handles' = IF r = "ok" THEN handles \ {"tmpf", "intar"}
                        ELSE IF r = "unlink" THEN handles \ {"tmpf"}
                        ELSE handles
          /\ tmpfiles' = IF r = "ok" THEN tmpfiles \ {fi} ELSE tmpfiles
          /\ exc' = IF r = "ok" THEN exc
                    ELSE IF r = "close" THEN [cls |-> "IOError", at |-> "cleanup"]
                    ELSE [cls |-> "Other", at |-> "cleanup"]
    /\ pc' = "handle"
    /\ UNCHANGED <<args, opts, disk, fi, processed, outcome, status,
                   intar, incls, outtar, stack>>

\* a slip in lines 209-214: the temporary file is moved over the archive
\* before the output archive and the file are closed
CloseFilesAfterMove ==
    /\ pc = "close"
    /\ disk' = IF opts.out THEN disk
               ELSE [disk EXCEPT ![args[fi]].members = Written(outtar)]
    /\ \E r \in {"ok", "outtar", "tmpf"} :
          /\ handles' = IF r = "ok" THEN {} ELSE handles \ {"intar"}
          /\ IF r = "ok"
             THEN pc' = "move" /\ exc' = exc
             ELSE exc' = [cls |-> "IOError", at |-> "close"] /\ pc' = "handle"
    /\ UNCHANGED <<args, opts, fi, processed, outcome, status,
                   intar, incls, tmpfiles, outtar, stack>>

\* lines 203-212: reorder() returned; intar, outtar and tmpf are closed in this
\* order, and closing outtar or tmpf (which write) can raise
CloseFiles ==
    /\ pc = "close"
    /\ \E r \in {"ok", "outtar", "tmpf"} :
          /\ handles' = IF r = "ok" THEN {}
                        ELSE IF r = "outtar" THEN handles \ {"intar"}
                        ELSE handles \ {"intar", "outtar"}
          /\ IF r = "ok"
             THEN pc' = "move" /\ exc' = exc
             ELSE Throw([cls |-> "IOError", at |-> "close"])
    /\ UNCHANGED <<args, opts, disk, fi, processed, outcome, status,
                   intar, incls, tmpfiles, outtar, stack>>

\* what shutil.move(tmpfn, fn) can do: rename the file; or fail leaving fn as
\* it is; or fail in the copy it falls back to, leaving fn overwritten in part
MoveOutcomes ==
    {[cls |-> "none", clobbered |-> FALSE]}
    \cup {[cls |-> c, clobbered |-> b] : c \in {"IOError", "Other"}, b \in BOOLEAN}

\* lines 213-214: without --output, the temporary file replaces the archive
Replace ==
    /\ pc = "move"
    /\ IF opts.out
       THEN UNCHANGED <<disk, tmpfiles, exc>>
       ELSE \E r \in MoveOutcomes :
              /\ disk' = IF r.cls = "none"
                         THEN [disk EXCEPT ![fn].members = Written(outtar)]
                         ELSE IF r.clobbered
                         THEN [disk EXCEPT ![fn].valid = FALSE, ![fn].members = <<>>]
                         ELSE disk
              /\ tmpfiles' = IF r.cls = "none" THEN tmpfiles \ {fi} ELSE tmpfiles
              /\ exc' = IF r.cls = "none" THEN exc ELSE [cls |-> r.cls, at |-> "move"]
    /\ pc' = "handle"
    /\ UNCHANGED <<args, opts, fi, processed, outcome, status,
                   intar, incls, handles, outtar, stack>>

\* the exceptions the except clauses of lines 215 and 218 catch
Caught == {"IOError", "ReadError"}

\* lines 215-222 and the next turn of the loop: a caught exception is reported,
\* no exception counts the archive as processed; any other exception ends the
\* program with a traceback and status 1. The variables of the finished turn
\* are dead and are cleared.
Handle ==
    /\ pc = "handle"
    /\ processed' = IF exc = NoExc THEN processed + 1 ELSE processed
    /\ outcome' = Append(outcome, IF exc = NoExc THEN "ok"
                                  ELSE IF exc.cls \in Caught THEN "failed"
                                  ELSE "crashed")
    /\ IF exc # NoExc /\ exc.cls \notin Caught
       THEN pc' = "done" /\ status' = 1 /\ fi' = fi
       ELSE /\ status' = status
            /\ IF fi < Len(args)
               THEN fi' = fi + 1 /\ pc' = "open"
               ELSE fi' = fi /\ pc' = "exit"
    /\ exc' = NoExc
    /\ intar' = <<>>
    /\ outtar' = <<>>
    /\ incls' = "file"
    /\ handles' = {}
    /\ UNCHANGED <<args, opts, disk, tmpfiles, stack>>

\* lines 224-232
Exit ==
    /\ pc = "exit"
    /\ status' = IF processed # Len(args) THEN 1 ELSE 0
    /\ pc' = "done"
    /\ UNCHANGED <<args, opts, disk, fi, exc, processed, outcome,
                   intar, incls, tmpfiles, handles, outtar, stack>>

---------------------------------------------------------------------------
(* Specifications. *)

\* what is the same at every start
InitRun ==
    /\ fi = 1
    /\ pc = "open"
    /\ exc = NoExc
    /\ processed = 0
    /\ outcome = <<>>
    /\ status = -1
    /\ intar = <<>>
    /\ incls = "file"
    /\ tmpfiles = {}
    /\ handles = {}
    /\ outtar = <<>>
    /\ stack = <<>>

\* one uncompressed archive of at most MaxLen members, reordered in place
Init ==
    /\ args = <<"f">>
    /\ opts \in [usemagic : BOOLEAN, out : {FALSE}]
    /\ \E ms \in Lists(MaxLen) :
          disk = [a \in {"f"} |-> [valid |-> TRUE, cls |-> "file", members |-> ms]]
    /\ InitRun

\* the archive names of a batch
Names == {"f", "g"}

\* the files a batch can name: archives, plain or compressed, and a file that
\* is no archive
BatchFiles ==
    {[valid |-> TRUE, cls |-> c, members |-> ms] :
        c \in {"file", "compressed"}, ms \in BatchContents}
    \cup {[valid |-> FALSE, cls |-> "file", members |-> <<>>]}

\* one to MaxArgs archive names (a name can come twice); --output with one only
BatchInit ==
    /\ args \in UNION {[1..n -> Names] : n \in 1..MaxArgs}
    /\ opts \in [usemagic : {TRUE}, out : BOOLEAN]
    /\ opts.out => Len(args) = 1
    /\ disk \in [Names -> BatchFiles]
    /\ InitRun

Next ==
    \/ OpenInput
    \/ CreateOutput
    \/ OpenOutput
    \/ StartReorder
    \/ ReorderBase
    \/ ReorderGroup
    \/ ReorderRecurse
    \/ ReorderReturn
    \/ AbortReorder
    \/ Cleanup
    \/ CloseFiles
    \/ Replace
    \/ Handle
    \/ Exit

Spec == Init /\ [][Next]_vars

BatchSpec == BatchInit /\ [][Next]_vars

---------------------------------------------------------------------------
(* What the claims are stated with. *)

\* reorder() returned normally to line 194 and nothing was closed yet
ReorderReturned == pc = "close"

\* the positions of the output archive
Pos == 1..Len(outtar)

\* the content-type key a regular file is grouped under at the first level
TypeKey(f) == IF opts.usemagic /\ f.sniff # "none" THEN <<f.sniff>> ELSE <<>>

\* a before b in the order of the full paths, members of the same path in
\* the order of the input
PathOrdered(a, b) ==
    \/ StrLess(a.path, b.path)
    \/ a.path = b.path /\ a.id < b.id

\* a and b end in the same sorted bucket: both directories, both symlinks and
\* such, or regular files that no criterion tells apart
SameBucket(a, b) ==
    /\ a.kind = b.kind
    /\ a.kind = "reg" =>
          /\ TypeKey(a) = TypeKey(b)
          /\ ExtKey(a.path) = ExtKey(b.path)
          /\ BaseName(a.path) = BaseName(b.path)

\* sub is inlist with some members left out
RECURSIVE IsSubList(_, _)
IsSubList(sub, inlist) ==
    IF sub = <<>> THEN TRUE
    ELSE IF inlist = <<>> THEN FALSE
    ELSE IF Head(sub) = Head(inlist) THEN IsSubList(Tail(sub), Tail(inlist))
    ELSE IsSubList(sub, Tail(inlist))

\* a bound on the steps reorder() takes on n members from criterion c on:
\* one for the base case; else the grouping step, the return, and per group
\* (at most n of them, none at the terminal criterion) the call and its steps
RECURSIVE Budget(_, _)
Budget(n, c) ==
    IF n <= 1 \/ c >= reorder_by.last THEN 2
    ELSE 2 + n * (1 + Budget(n, c + 1))

\* the steps an activation record and the calls it has yet to make can take
FrameBudget(fr) ==
    IF fr.pc = "start" THEN Budget(Len(fr.inlist), fr.crit)
    ELSE 1 + Len(fr.keys) * (1 + Budget(Len(fr.inlist), fr.crit + 1))

RECURSIVE StackBudget(_)
StackBudget(st) ==
    IF st = <<>> THEN 0 ELSE FrameBudget(Head(st)) + StackBudget(Tail(st))

\* the archive of this turn was reordered with success in an earlier turn
ReorderedBefore ==
    \E j \in 1..(fi - 1) : j <= Len(outcome) /\ args[j] = fn /\ outcome[j] = "ok"

---------------------------------------------------------------------------
(* The claims. *)

\* C1: when reorder() has returned, every member of the input archive is in
\* the output archive exactly once: the output is a permutation of the input.
C1_Permutation ==
    ReorderReturned =>
        /\ Len(outtar) = Len(intar)
        /\ \A k \in 1..Len(intar) :
              Cardinality({j \in Pos : outtar[j] = intar[k]}) = 1

\* a full archive with two members of one path was reordered into another order
C1_Witness ==
    /\ ReorderReturned
    /\ Len(intar) >= 3
    /\ \E a, b \in 1..Len(intar) : a # b /\ intar[a].path = intar[b].path
    /\ \E k \in 1..Len(intar) : intar[k].kind = "reg" /\ TypeKey(intar[k]) = <<>>
    /\ outtar # intar

\* C2: in place, the archive on disk changes only in the move of line 214,
\* which is taken after the input was opened, reorder() returned with every
\* member written, and the input, the output archive and the temporary file
\* were closed without an exception; any failure before leaves it as it was.
C2_ReplacedLast ==
    [][disk' # disk =>
          /\ pc = "move"
          /\ ~opts.out
          /\ exc = NoExc
          /\ handles = {}
          /\ Len(outtar) = Len(disk[fn].members)]_vars

\* an archive was replaced by its reordered members, in another order
C2_Witness ==
    /\ pc = "handle"
    /\ exc = NoExc
    /\ ~opts.out
    /\ fi \notin tmpfiles
    /\ disk[fn].members = Written(outtar)
    /\ Written(outtar) # Written(intar)

\* C3: once an archive has failed, no output or temporary file created for it
\* is left on disk.
C3_NoTempLeft ==
    \A k \in 1..Len(outcome) : outcome[k] # "ok" => k \notin tmpfiles

\* C4: when the program has ended, every archive of the command line was
\* attempted, the status is 1 if one of them failed, and the success count is
\* the number of archives that succeeded.
C4_BatchIsolated ==
    pc = "done" =>
        /\ Len(outcome) = Len(args)
        /\ (\E k \in 1..Len(outcome) : outcome[k] # "ok") => status = 1
        /\ processed = Cardinality({k \in 1..Len(outcome) : outcome[k] = "ok"})

\* C5: a failure to sniff a regular file never leaves reorder() as an
\* exception.
C5_SniffTolerated == exc.at # "sniff"

\* C6: in the output of a complete reorder() every directory is before every
\* regular file, and every regular file before every symlink or such.
C6_StructuralOrder ==
    ReorderReturned =>
        \A i, j \in Pos : i < j =>
            /\ outtar[j].kind = "dir" => outtar[i].kind = "dir"
            /\ outtar[i].kind = "other" => outtar[j].kind = "other"

\* the three kinds were reordered, and came in with a symlink first
C6_Witness ==
    /\ ReorderReturned
    /\ Len(intar) >= 3
    /\ intar[1].kind = "other"
    /\ {intar[k].kind : k \in 1..Len(intar)} = Kinds

\* C7: reordering an archive that an earlier turn reordered writes its members
\* in the order they already have.
C7_Idempotent ==
    (pc = "move" /\ ReorderedBefore) => Written(outtar) = disk[fn].members

\* C8: among the regular files of one content-type key the output goes by
\* ascending extension-chain key, so the files of one key are adjacent; the
\* key joins the extensions from the right (b.t.z has .z.t, c has the empty key).
C8_ExtensionClusters ==
    /\ ExtKey(<<"b", ".", "t", ".", "z">>) = <<".", "z", ".", "t">>
    /\ ExtKey(<<"c">>) = <<>>
    /\ ReorderReturned =>
          \A i, j \in Pos :
              ( /\ i < j
                /\ outtar[i].kind = "reg" /\ outtar[j].kind = "reg"
                /\ TypeKey(outtar[i]) = TypeKey(outtar[j]) )
              => StrLeq(ExtKey(outtar[i].path), ExtKey(outtar[j].path))

\* three files of one content type and two extension chains, the odd one
\* between the two others in the input, were reordered
C8_Witness ==
    /\ ReorderReturned
    /\ Len(intar) >= 3
    /\ \A k \in 1..3 : intar[k].kind = "reg" /\ TypeKey(intar[k]) = TypeKey(intar[1])
    /\ ExtKey(intar[1].path) = ExtKey(intar[3].path)
    /\ StrLess(ExtKey(intar[1].path), ExtKey(intar[2].path))

\* C9: the members of one sorted bucket (the directories, the symlinks and
\* such, the regular files that reach the terminal criterion together) are
\* written in ascending order of their full path, equal paths in input order.
C9_SortedByPath ==
    ReorderReturned =>
        \A i, j \in Pos :
            (i < j /\ SameBucket(outtar[i], outtar[j]))
            => PathOrdered(outtar[i], outtar[j])

\* the criteria and the lists of the active calls of reorder()
CallsBounded ==
    /\ Len(stack) <= reorder_by.last
    /\ \A k \in 1..Len(stack) :
          /\ stack[k].crit = k
          /\ stack[k].crit \in reorder_by.type..reorder_by.last
          /\ k > 1 => IsSubList(stack[k].inlist, stack[k-1].inlist)
          /\ k > 1 => stack[k].inlist # <<>>

\* C10: reorder() is only ever active with a criterion of 1..4, the k-th
\* nested call having criterion k, so at most 4 calls are nested; every call
\* has a sub-list of its caller's list; and reorder() terminates: every step
\* of it lowers a bound, a natural number, on the steps that are left.
C10_BoundedAndTerminates ==
    /\ []CallsBounded
    /\ [][stack # <<>> => StackBudget(stack') < StackBudget(stack)]_vars

\* the terminal criterion is active on two members
C10_Witness ==
    /\ Len(stack) = reorder_by.last
    /\ Top.crit = reorder_by.last
    /\ Top.pc = "groups"
    /\ Len(Top.inlist) >= 2

===========================================================================
